---- MODULE Spec2Model ----
(***************************************************************************)
(* State-machine model of src/autonomous.py (class AutonomousCar).         *)
(*                                                                         *)
(* Fixed-point representation of the program's floats:                     *)
(*   speed            in units of 1/SpeedUnit (acceleration_rate = 0.2     *)
(*                    is exactly one unit),                                *)
(*   dt               in units of 1/TimeUnit seconds,                      *)
(*   car_x, car_y     in units of 1/PosUnit world units,                   *)
(*   car_h, steering_angle, autonomous_steering_correction in degrees.     *)
(* sin and cos are computed by Bhaskara's rational approximation scaled by *)
(* TrigUnit (exact at 0, 30, 90, 150 and 180 degrees, error < 0.002).      *)
(* Rounding of the binary floats is not modelled: a speed is the exact      *)
(* multiple of acceleration_rate that the accelerate calls add up to.      *)
(***************************************************************************)
EXTENDS Integers, FiniteSets, Sequences, TLC

VARIABLES
    speed,                            \* self.speed
    steering_angle,                   \* self.steering_angle
    manual_mode,                      \* self.manual_mode
    autonomous_steering_correction,   \* self.autonomous_steering_correction
    car_x, car_y, car_h,              \* self.car.getX() / getY() / getH()
    map_texture,                      \* self.map_texture (None or a pixel grid)
    track_ok,                         \* outcome of the last track check: "on",
                                      \* "off" ("Car off the track!" printed)
                                      \* or "unchecked" before the first tick
    nAccel, nTicks                    \* numbers of accelerate calls and of ticks

vars == <<speed, steering_angle, manual_mode, autonomous_steering_correction,
          car_x, car_y, car_h, map_texture, track_ok, nAccel, nTicks>>

carVars == <<car_x, car_y, car_h>>

-----------------------------------------------------------------------------
(* Units of the fixed-point representation *)

SpeedUnit == 5
TimeUnit == 5
PosUnit == 100
TrigUnit == 1000

(* Bounds of the model *)

MaxAccel == 2       \* accelerate calls followed in a run of Spec
MaxTicks == 2       \* update_car ticks followed in a run
TexW == 2           \* map_texture.getXSize()
TexH == 2           \* map_texture.getYSize()

\* frame times globalClock.getDt() may report: 0 s (the first frame) and
\* stalls of 5 s and 10 s, long enough for a few ticks to reach the clamps
DtValues == {0, 25, 50}

-----------------------------------------------------------------------------
(* Program constants *)

max_forward_speed == 20 * SpeedUnit
max_reverse_speed == -10 * SpeedUnit
acceleration_rate == SpeedUnit \div 5
autonomous_speed == 10 * SpeedUnit
steer_rate == 15
boundary == 50 * PosUnit
black_threshold == 10
start_x == -3 * PosUnit
start_y == 8 * PosUnit
start_h == 90


-----------------------------------------------------------------------------
(* Arithmetic helpers *)

Max(a, b) == IF a >= b THEN a ELSE b
Min(a, b) == IF a <= b THEN a ELSE b

\* Python's int(): truncation toward zero of n / d  (d > 0)
int(n, d) == IF n >= 0 THEN n \div d ELSE -((-n) \div d)

\* n / d rounded to the nearest integer (d > 0)
RoundDiv(n, d) == (2 * n + d) \div (2 * d)

\* sin of an angle in [0, 180] degrees, scaled by TrigUnit
HalfSine(a) == (4 * TrigUnit * a * (180 - a)) \div (40500 - a * (180 - a))

\* math.sin(radians(deg)) and math.cos(radians(deg)), scaled by TrigUnit
sin(deg) ==
    LET a == deg % 360
    IN  IF a <= 180 THEN HalfSine(a) ELSE -HalfSine(a - 180)

cos(deg) == sin(deg + 90)

-----------------------------------------------------------------------------
(* The map texture *)

Pixels == (0 .. TexW - 1) \X (0 .. TexH - 1)

Black == <<0, 0, 0>>
Green == <<0, 255, 0>>
White == <<255, 255, 255>>

\* a texture of background colour b with pixel p painted c
Paint(b, p, c) == [q \in Pixels |-> IF q = p THEN c ELSE b]

Uniform(c) == [q \in Pixels |-> c]

\* self.map_texture = None: no pixel grid at all
None == [q \in {} |-> Black]


-----------------------------------------------------------------------------
(* Pure functions of the program *)

\* texture column and row sampled for a world position
TexU(x) == int((x + 10 * PosUnit) * TexW, 20 * PosUnit)
TexV(y) == int((y + 10 * PosUnit) * TexH, 20 * PosUnit)

\* the pixel under the start position of the car
StartPixel == <<TexU(start_x), TexV(start_y)>>

\* the textures a run may have loaded: none, an all-black map, an all-white
\* map, and a black map with the green start grid under the car
MapTextures ==
    {None, Uniform(Black), Uniform(White), Paint(Black, StartPixel, Green)}

\* is_car_on_track failing closed: without a texture the car counts as off
\* the track
is_car_on_track_fail_closed(x, y) ==
    IF map_texture = None
    THEN FALSE
    ELSE LET u == TexU(x)
             v == TexV(y)
         IN  IF 0 <= u /\ u < TexW /\ 0 <= v /\ v < TexH
             THEN LET rgb == map_texture[<<u, v>>]
                  IN  rgb[1] < black_threshold /\ rgb[2] < black_threshold
                      /\ rgb[3] < black_threshold
             ELSE FALSE

\* is_car_on_track with the car at (x, y)
is_car_on_track(x, y) ==
    IF map_texture = None
    THEN TRUE
    ELSE LET u == TexU(x)
             v == TexV(y)
         IN  IF 0 <= u /\ u < TexW /\ 0 <= v /\ v < TexH
             THEN LET rgb == map_texture[<<u, v>>]
                  IN  rgb[1] < black_threshold /\ rgb[2] < black_threshold
                      /\ rgb[3] < black_threshold
             ELSE FALSE

\* check_boundaries whose upper test repeats the lower one
check_boundaries_lower_only(c) ==
    IF c < -boundary THEN -boundary
    ELSE IF c < -boundary THEN boundary
    ELSE c

\* check_boundaries applied to one coordinate
check_boundaries(c) ==
    IF c < -boundary THEN -boundary
    ELSE IF c > boundary THEN boundary
    ELSE c

\* heading after the integration step of a tick of length dt
NewH(dt) ==
    IF manual_mode
    THEN car_h + (steering_angle * dt) \div TimeUnit
    ELSE car_h + autonomous_steering_correction

\* speed used by the integration step
DriveSpeed == IF manual_mode THEN speed ELSE autonomous_speed

\* trig * speed * dt, in position units
Displacement(trig, v, dt) ==
    RoundDiv(trig * v * dt * PosUnit, TrigUnit * SpeedUnit * TimeUnit)

\* position after the integration step, before check_boundaries
NewX(dt) == car_x + Displacement(-sin(NewH(dt)), DriveSpeed, dt)
NewY(dt) == car_y + Displacement(cos(NewH(dt)), DriveSpeed, dt)

-----------------------------------------------------------------------------
(* Handlers *)

\* accelerate clamping the old speed instead of the new one
accelerate_clamp_first(increment) ==
    /\ IF manual_mode
       THEN speed' = Max(max_reverse_speed, Min(speed, max_forward_speed))
                        + increment * acceleration_rate
       ELSE speed' = speed
    /\ UNCHANGED <<steering_angle, manual_mode, autonomous_steering_correction,
                   carVars, map_texture, track_ok>>

\* accelerate without the manual_mode test
accelerate_any_mode(increment) ==
    /\ speed' = Max(max_reverse_speed,
                    Min(speed + increment * acceleration_rate,
                        max_forward_speed))
    /\ UNCHANGED <<steering_angle, manual_mode, autonomous_steering_correction,
                   carVars, map_texture, track_ok>>

accelerate(increment) ==
    /\ IF manual_mode
       THEN speed' = Max(max_reverse_speed,
                         Min(speed + increment * acceleration_rate,
                             max_forward_speed))
       ELSE speed' = speed
    /\ UNCHANGED <<steering_angle, manual_mode, autonomous_steering_correction,
                   carVars, map_texture, track_ok>>

stop_accelerate ==
    /\ speed' = 0
    /\ UNCHANGED <<steering_angle, manual_mode, autonomous_steering_correction,
                   carVars, map_texture, track_ok>>

\* steer without the speed test
steer_at_rest(direction) ==
    /\ IF manual_mode
       THEN steering_angle' = direction * steer_rate
       ELSE steering_angle' = steering_angle
    /\ UNCHANGED <<speed, manual_mode, autonomous_steering_correction,
                   carVars, map_texture, track_ok>>

\* steer adding to the steering angle instead of setting it
steer_accumulate(direction) ==
    /\ IF manual_mode /\ speed # 0
       THEN steering_angle' = steering_angle + direction * steer_rate
       ELSE steering_angle' = steering_angle
    /\ UNCHANGED <<speed, manual_mode, autonomous_steering_correction,
                   carVars, map_texture, track_ok>>

steer(direction) ==
    /\ IF manual_mode /\ speed # 0
       THEN steering_angle' = direction * steer_rate
       ELSE steering_angle' = steering_angle
    /\ UNCHANGED <<speed, manual_mode, autonomous_steering_correction,
                   carVars, map_texture, track_ok>>

stop_turn ==
    /\ steering_angle' = 0
    /\ UNCHANGED <<speed, manual_mode, autonomous_steering_correction,
                   carVars, map_texture, track_ok>>

\* toggle_mode that forgets to reset the correction
toggle_mode_keep_correction ==
    /\ manual_mode' = ~manual_mode
    /\ IF ~manual_mode'
       THEN /\ speed' = 0
            /\ steering_angle' = 0
            /\ UNCHANGED autonomous_steering_correction
       ELSE UNCHANGED <<speed, steering_angle, autonomous_steering_correction>>
    /\ UNCHANGED <<carVars, map_texture, track_ok>>

toggle_mode ==
    /\ manual_mode' = ~manual_mode
    /\ IF ~manual_mode'
       THEN /\ speed' = 0
            /\ steering_angle' = 0
            /\ autonomous_steering_correction' = 0
       ELSE UNCHANGED <<speed, steering_angle, autonomous_steering_correction>>
    /\ UNCHANGED <<carVars, map_texture, track_ok>>

\* update_car comparing x <= 0 for the sign of the correction
update_car_sign_le(dt) ==
    LET h  == NewH(dt)
        x  == NewX(dt)
        y  == NewY(dt)
        on == is_car_on_track(x, y)
    IN  /\ car_h' = h
        /\ track_ok' = IF on THEN "on" ELSE "off"
        /\ autonomous_steering_correction' =
              IF ~on THEN (IF x <= 0 THEN 1 ELSE -1)
              ELSE autonomous_steering_correction
        /\ car_x' = check_boundaries(x)
        /\ car_y' = check_boundaries(y)
        /\ UNCHANGED <<speed, steering_angle, manual_mode, map_texture>>

\* update_car clearing the correction when the car is on the track
update_car_clear_on_track(dt) ==
    LET h  == NewH(dt)
        x  == NewX(dt)
        y  == NewY(dt)
        on == is_car_on_track(x, y)
    IN  /\ car_h' = h
        /\ track_ok' = IF on THEN "on" ELSE "off"
        /\ autonomous_steering_correction' =
              IF ~on THEN (IF x < 0 THEN 1 ELSE -1)
              ELSE 0
        /\ car_x' = check_boundaries(x)
        /\ car_y' = check_boundaries(y)
        /\ UNCHANGED <<speed, steering_angle, manual_mode, map_texture>>

update_car(dt) ==
    LET h  == NewH(dt)
        x  == NewX(dt)
        y  == NewY(dt)
        on == is_car_on_track(x, y)
    IN  /\ car_h' = h
        /\ track_ok' = IF on THEN "on" ELSE "off"
        /\ autonomous_steering_correction' =
              IF ~on THEN (IF x < 0 THEN 1 ELSE -1)
              ELSE autonomous_steering_correction
        /\ car_x' = check_boundaries(x)
        /\ car_y' = check_boundaries(y)
        /\ UNCHANGED <<speed, steering_angle, manual_mode, map_texture>>

-----------------------------------------------------------------------------
(* The program: construction, then key events and frame ticks in any order *)

Construct ==
    /\ speed = 0
    /\ steering_angle = 0
    /\ manual_mode = TRUE
    /\ autonomous_steering_correction = 0
    /\ car_x = start_x
    /\ car_y = start_y
    /\ car_h = start_h
    /\ track_ok = "unchecked"
    /\ nAccel = 0
    /\ nTicks = 0

Init == Construct /\ map_texture \in MapTextures

Accelerate ==
    \E increment \in {1, -1} :
        /\ nAccel < MaxAccel
        /\ nAccel' = nAccel + 1
        /\ accelerate(increment)
        /\ UNCHANGED nTicks

StopAccelerate == stop_accelerate /\ UNCHANGED <<nAccel, nTicks>>

Steer == \E direction \in {-1, 1} : steer(direction) /\ UNCHANGED <<nAccel, nTicks>>

StopTurn == stop_turn /\ UNCHANGED <<nAccel, nTicks>>

ToggleMode == toggle_mode /\ UNCHANGED <<nAccel, nTicks>>

Tick ==
    \E dt \in DtValues :
        /\ nTicks < MaxTicks
        /\ nTicks' = nTicks + 1
        /\ update_car(dt)
        /\ UNCHANGED nAccel

Next == Accelerate \/ StopAccelerate \/ Steer \/ StopTurn \/ ToggleMode \/ Tick

Spec == Init /\ [][Next]_vars

(* The key handlers without a bound on the accelerate calls, between frames *)
(* of zero length (the car does not move, so the speed range is explored   *)
(* in full).                                                               *)

AccelerateFree ==
    \E increment \in {1, -1} :
        accelerate(increment) /\ UNCHANGED <<nAccel, nTicks>>

IdleTick ==
    /\ nTicks < MaxTicks
    /\ nTicks' = nTicks + 1
    /\ update_car(0)
    /\ UNCHANGED nAccel

NextKeys ==
    AccelerateFree \/ StopAccelerate \/ Steer \/ StopTurn \/ ToggleMode
        \/ IdleTick

SpecKeys == Init /\ [][NextKeys]_vars

-----------------------------------------------------------------------------
(* Properties *)

progVars == <<speed, steering_angle, manual_mode,
              autonomous_steering_correction, car_x, car_y, car_h,
              map_texture, track_ok>>

\* C1 (speed clamp): in every state reachable by key handlers and ticks,
\* max_reverse_speed <= speed <= max_forward_speed.
SpeedClamp == max_reverse_speed <= speed /\ speed <= max_forward_speed

\* C1 witness: accelerate has driven the speed to the upper end, with frames
\* in between.
SpeedAtMax == speed = max_forward_speed /\ manual_mode /\ nTicks > 0

\* C2 (position clamp): in every reachable state, and so after every tick, x
\* and y are both within [-boundary, boundary].
PositionClamp ==
    /\ -boundary <= car_x /\ car_x <= boundary
    /\ -boundary <= car_y /\ car_y <= boundary

\* C2 witness: ticks have pushed the car against the upper y boundary.
CarAtUpperY == car_y = boundary /\ nTicks > 0

\* C3 (mode reset): the mode starts Manual, every toggle_mode flips it, and
\* every step from Manual to Autonomous ends with speed, steering angle and
\* correction all 0.
ModeReset ==
    /\ manual_mode = TRUE
    /\ [][ToggleMode => manual_mode' = ~manual_mode]_vars
    /\ [][(manual_mode /\ ~manual_mode')
            => (speed' = 0 /\ steering_angle' = 0
                /\ autonomous_steering_correction' = 0)]_vars

\* C3 witness: Autonomous mode entered after a tick on the all-white map had
\* set the correction: the last track check failed, yet the correction is 0.
ResetAfterOffTrack ==
    /\ ~manual_mode
    /\ map_texture = Uniform(White)
    /\ track_ok = "off"
    /\ autonomous_steering_correction = 0
    /\ nAccel > 0

\* C4 (steer gating): a steer(d) call in Manual mode with speed # 0 sets
\* steering_angle to d * 15; any other steer(d) call changes no state variable.
SteerGating ==
    [][\A d \in {-1, 1} :
          steer(d) =>
            IF manual_mode /\ speed # 0
            THEN steering_angle' = d * 15
            ELSE UNCHANGED progVars]_vars

\* C4 witness: the car is at rest in Manual mode with the steering still
\* turned, after a tick: steer(-1) is a no-op here.
SteeredAtRest ==
    manual_mode /\ speed = 0 /\ steering_angle = 15 /\ nTicks > 0

\* C5 (track sample boundary, as claimed): with a texture loaded, the last
\* track check of a car strictly inside the boundaries is "on" iff
\* floor-mapped (u, v) is inside the texture and its pixel is near-black.
FloorU(x) == ((x + 10 * PosUnit) * TexW) \div (20 * PosUnit)
FloorV(y) == ((y + 10 * PosUnit) * TexH) \div (20 * PosUnit)

TrackSampleBoundary ==
    (/\ map_texture # None
     /\ track_ok # "unchecked"
     /\ -boundary < car_x /\ car_x < boundary
     /\ -boundary < car_y /\ car_y < boundary)
    => (track_ok = "on"
        <=> /\ <<FloorU(car_x), FloorV(car_y)>> \in Pixels
            /\ \A i \in 1 .. 3 :
                  map_texture[<<FloorU(car_x), FloorV(car_y)>>][i] < 10)

\* C6 (off-track correction sign): every tick checks the track at the
\* position just integrated; if the check fails the correction becomes +1
\* for x < 0 and -1 for x >= 0, in either mode; otherwise it is unchanged.
OffTrackCorrectionSign ==
    [][\A dt \in DtValues :
          update_car(dt) =>
            /\ track_ok' = IF is_car_on_track(NewX(dt), NewY(dt))
                           THEN "on" ELSE "off"
            /\ track_ok' = "off" =>
                 autonomous_steering_correction' =
                    IF NewX(dt) < 0 THEN 1 ELSE -1
            /\ track_ok' = "on" =>
                 UNCHANGED autonomous_steering_correction]_vars

\* C6 witness: a Manual-mode tick ended off the track at exactly x = 0 and
\* the correction is -1.
OffTrackAtZeroX ==
    /\ manual_mode
    /\ track_ok = "off"
    /\ car_x = 0
    /\ autonomous_steering_correction = -1

\* C7 (as claimed): every variable of the vehicle state, the heading
\* included, stays inside a fixed range (a full turn either way for the
\* heading).
NoUnboundedGrowth ==
    /\ {car_x, car_y} \subseteq -boundary .. boundary
    /\ speed \in max_reverse_speed .. max_forward_speed
    /\ steering_angle \in {-15, 0, 15}
    /\ autonomous_steering_correction \in {-1, 0, 1}
    /\ -360 <= car_h /\ car_h <= 360

\* C7 (amended): position, speed, steering angle and correction stay inside
\* fixed ranges; nothing is said of the heading.
BoundedExceptHeading ==
    /\ -boundary <= car_x /\ car_x <= boundary
    /\ -boundary <= car_y /\ car_y <= boundary
    /\ max_reverse_speed <= speed /\ speed <= max_forward_speed
    /\ steering_angle \in {-15, 0, 15}
    /\ autonomous_steering_correction \in {-1, 0, 1}

\* C7 witness: steered Manual ticks have taken the heading past a full turn
\* while the car is still moving and steering.
HeadingPastFullTurn ==
    car_h > 360 /\ speed # 0 /\ steering_angle = 15

\* C8 (fail-open track check): without a map texture no track check fails,
\* the correction stays 0 and no step taken in Autonomous mode changes the
\* heading.
FailOpen ==
    /\ [](map_texture = None =>
            (autonomous_steering_correction = 0 /\ track_ok # "off"))
    /\ [][(map_texture = None /\ ~manual_mode) => car_h' = car_h]_vars

\* C8 witness: without a texture, Autonomous ticks have driven the car to the
\* x boundary, far outside the map, and the check still passed.
FailOpenFarOut ==
    /\ map_texture = None
    /\ ~manual_mode
    /\ car_x = -boundary
    /\ track_ok = "on"

\* C9 (at rest in Autonomous mode): whenever the mode is Autonomous, speed
\* and steering_angle are 0, so a toggle back to Manual starts from both 0.
AutonomousAtRest == ~manual_mode => (speed = 0 /\ steering_angle = 0)

\* C9 witness: Autonomous mode with accelerate calls made and a nonzero
\* correction carried along.
AutonomousWithCorrection ==
    /\ ~manual_mode
    /\ nAccel > 0
    /\ autonomous_steering_correction # 0

\* C10 (sticky correction): the correction is always -1, 0 or +1; a nonzero
\* correction returns to 0 only by a toggle into Autonomous mode; and every
\* Autonomous tick with a nonzero correction turns the heading by it.
StickyCorrection ==
    /\ [](autonomous_steering_correction \in {-1, 0, 1})
    /\ [][(autonomous_steering_correction # 0
            /\ autonomous_steering_correction' = 0)
            => (manual_mode /\ ~manual_mode')]_vars
    /\ [][(~manual_mode /\ autonomous_steering_correction # 0
            /\ nTicks' # nTicks)
            => car_h' = car_h + autonomous_steering_correction]_vars

\* C10 witness: the last tick found the car back on the track and the
\* correction is still nonzero.
CorrectionKeptOnTrack ==
    track_ok = "on" /\ autonomous_steering_correction # 0

====
